---- MODULE Spec2Model ----
(***************************************************************************)
(* Version resolution of docs/source/conf.py (lines 11-19).                *)
(*                                                                         *)
(*   version_file = os.path.join(os.path.dirname(__file__),              *)
(*                               '../../.version')                         *)
(*   if os.path.exists(version_file):                                      *)
(*       with open(version_file) as f:                                     *)
(*           release = f.read().strip()                                    *)
(*   else:                                                                 *)
(*       release = '0.0.0'                                                 *)
(*   version = '.'.join(release.split('.')[:2])                            *)
(*                                                                         *)
(* A string is a sequence of one-character strings.  The path              *)
(* <base>/../../.version is modelled by fs: nothing, a regular file (with  *)
(* its text and whether this process may read it) or a directory.  Other   *)
(* processes may change the path at any moment (the Env actions).          *)
(*                                                                         *)
(* The file's text is the text a text-mode read decodes; the alphabet has  *)
(* no carriage return, so universal-newline translation changes nothing on *)
(* the modelled contents.  Bad stands for a byte the default codec cannot  *)
(* decode.                                                                 *)
(***************************************************************************)
EXTENDS Naturals, Sequences, FiniteSets

VARIABLES
    fs,          \* what is at the version path: [kind, text, readable]
    pc,          \* position in the module-level code of conf.py
    release,     \* conf.py's global  release  (meaningful once bound)
    version,     \* conf.py's global  version  (meaningful once bound)
    bound,       \* which of the two names are bound in the module namespace
    openHandles, \* number of open file objects
    fText,       \* text reachable through the open file object f
    fLive,       \* f's file is still the file at the version path
    raised,      \* an exception is propagating
    checked,     \* history: kind of fs seen by os.path.exists ("none" before)
    opens,       \* history: number of open() calls
    reads,       \* history: number of f.read() calls
    readText,    \* history: the text f.read() returned
    envSteps     \* number of changes made by other processes

vars == <<fs, pc, release, version, bound, openHandles, fText, fLive, raised,
          checked, opens, reads, readText, envSteps>>

---------------------------------------------------------------------------
(* Bounds *)

MaxLen == 4
MaxEnvSteps == 2

---------------------------------------------------------------------------
(* Characters and strings *)

Dot == "."
Bad == "#"
Whitespace == {" ", "\n"}
Alphabet == {"1", "2", Dot, Bad} \cup Whitespace

Strings(n) == UNION {[1..k -> Alphabet] : k \in 0..n}

\* Texts other processes write to the version path.
EnvTexts == {<<"2">>, <<"1", Dot, "2", "\n">>, <<Bad>>}

---------------------------------------------------------------------------
(* Python string methods, computed as CPython computes them *)

\* str.lstrip(): drop characters from the left while they are whitespace.
RECURSIVE LStrip(_)
LStrip(s) ==
    IF s = <<>> THEN <<>>
    ELSE IF Head(s) \in Whitespace THEN LStrip(Tail(s))
    ELSE s

\* str.rstrip(): drop characters from the right while they are whitespace.
RECURSIVE RStrip(_)
RStrip(s) ==
    IF s = <<>> THEN <<>>
    ELSE IF s[Len(s)] \in Whitespace THEN RStrip(SubSeq(s, 1, Len(s) - 1))
    ELSE s

StripRightOnly(s) == RStrip(s)

\* str.strip() with no argument.
Strip(s) == RStrip(LStrip(s))

\* str.split(sep): the list of the segments between occurrences of sep;
\* always at least one segment, empty segments kept.
RECURSIVE SplitFrom(_, _, _)
SplitFrom(s, sep, cur) ==
    IF s = <<>> THEN <<cur>>
    ELSE IF Head(s) = sep THEN <<cur>> \o SplitFrom(Tail(s), sep, <<>>)
    ELSE SplitFrom(Tail(s), sep, Append(cur, Head(s)))

Split(s, sep) == SplitFrom(s, sep, <<>>)

FirstThree(l) == SubSeq(l, 1, IF Len(l) < 3 THEN Len(l) ELSE 3)

\* list[:2]
FirstTwo(l) == SubSeq(l, 1, IF Len(l) < 2 THEN Len(l) ELSE 2)

RECURSIVE Concat(_)
Concat(l) ==
    IF l = <<>> THEN <<>> ELSE Head(l) \o Concat(Tail(l))

JoinWithoutSep(sep, l) == Concat(l)

\* sep.join(list)
RECURSIVE Join(_, _)
Join(sep, l) ==
    IF l = <<>> THEN <<>>
    ELSE IF Len(l) = 1 THEN l[1]
    ELSE l[1] \o <<sep>> \o Join(sep, Tail(l))

---------------------------------------------------------------------------
(* The expressions of conf.py *)

ShortDefault == <<"0", Dot, "0">>

\* '0.0.0', line 17
DefaultRelease == <<"0", Dot, "0", Dot, "0">>

\* os.path.exists(version_file), line 13: true for anything at the path.
Exists(f) == f.kind # "absent"

\* open(version_file) succeeds, line 14: a regular file this process may read.
CanOpen(f) == f.kind = "file" /\ f.readable

\* f.read() decodes the whole text, line 15.
Decodable(t) == \A i \in 1..Len(t) : t[i] # Bad

StripOrDefault(t) == IF Strip(t) = <<>> THEN DefaultRelease ELSE Strip(t)

\* f.read().strip(), line 15
ReleaseFromText(t) == Strip(t)

\* '.'.join(release.split('.')[:2]), line 19
VersionOf(r) == Join(Dot, FirstTwo(Split(r, Dot)))

\* The default mode of open() is 'r': opening leaves the file's text alone.
TruncatedOnOpen(t) == <<>>

TextAfterOpen(t) == t

\* The module-level code runs once, when the configuration is loaded.
AtLoadOrDone == pc \in {"check", "done"}

AtLoad == pc = "check"

\* No try/except surrounds line 14: a failing open() ends the load.
FallBackToElse == "else"

AfterOpenFailure == "error"

\* The with statement's __exit__ closes f, whether or not the body raised.
LeakOnError(h, exc) == IF exc THEN h ELSE h - 1

HandlesAfterExit(h, exc) == h - 1

---------------------------------------------------------------------------
(* The version path *)

Absent == [kind |-> "absent", text |-> <<>>, readable |-> FALSE]
Dir == [kind |-> "dir", text |-> <<>>, readable |-> TRUE]
File(t, r) == [kind |-> "file", text |-> t, readable |-> r]

InitFs ==
    {Absent, Dir}
        \cup {File(t, TRUE) : t \in Strings(MaxLen)}
        \cup {File(t, FALSE) : t \in EnvTexts}

Init ==
    /\ fs \in InitFs
    /\ pc = "check"
    /\ release = <<>>
    /\ version = <<>>
    /\ bound = {}
    /\ openHandles = 0
    /\ fText = <<>>
    /\ fLive = FALSE
    /\ raised = FALSE
    /\ checked = "none"
    /\ opens = 0
    /\ reads = 0
    /\ readText = <<>>
    /\ envSteps = 0

---------------------------------------------------------------------------
(* The module-level statements of conf.py, lines 13-19 *)

\* line 13: if os.path.exists(version_file):
CheckExists ==
    /\ AtLoad
    /\ checked' = fs.kind
    /\ pc' = IF Exists(fs) THEN "open" ELSE "else"
    /\ UNCHANGED <<fs, release, version, bound, openHandles, fText, fLive,
                   raised, opens, reads, readText, envSteps>>

\* line 14: with open(version_file) as f:
Open ==
    /\ pc = "open"
    /\ opens' = opens + 1
    /\ IF CanOpen(fs)
       THEN /\ fs' = [fs EXCEPT !.text = TextAfterOpen(fs.text)]
            /\ openHandles' = openHandles + 1
            /\ fText' = fs'.text
            /\ fLive' = TRUE
            /\ pc' = "read"
            /\ UNCHANGED raised
       ELSE /\ pc' = AfterOpenFailure
            /\ raised' = (pc' = "error")
            /\ UNCHANGED <<fs, openHandles, fText, fLive>>
    /\ UNCHANGED <<release, version, bound, checked, reads, readText, envSteps>>

\* line 15: release = f.read().strip()
Read ==
    /\ pc = "read"
    /\ reads' = reads + 1
    /\ pc' = "exit"
    /\ IF Decodable(fText)
       THEN /\ readText' = fText
            /\ release' = ReleaseFromText(fText)
            /\ bound' = bound \cup {"release"}
            /\ UNCHANGED raised
       ELSE /\ raised' = TRUE
            /\ UNCHANGED <<readText, release, bound>>
    /\ UNCHANGED <<fs, version, openHandles, fText, fLive, checked, opens,
                   envSteps>>

\* leaving the with block of line 14, normally or by the exception
WithExit ==
    /\ pc = "exit"
    /\ openHandles' = HandlesAfterExit(openHandles, raised)
    /\ fText' = IF openHandles' = 0 THEN <<>> ELSE fText
    /\ fLive' = IF openHandles' = 0 THEN FALSE ELSE fLive
    /\ pc' = IF raised THEN "error" ELSE "version"
    /\ UNCHANGED <<fs, release, version, bound, raised, checked, opens, reads,
                   readText, envSteps>>

\* lines 16-17: else: release = '0.0.0'
Else ==
    /\ pc = "else"
    /\ release' = DefaultRelease
    /\ bound' = bound \cup {"release"}
    /\ pc' = "version"
    /\ UNCHANGED <<fs, version, openHandles, fText, fLive, raised, checked,
                   opens, reads, readText, envSteps>>

\* line 19: version = '.'.join(release.split('.')[:2])
ComputeVersion ==
    /\ pc = "version"
    /\ version' = VersionOf(release)
    /\ bound' = bound \cup {"version"}
    /\ pc' = "done"
    /\ UNCHANGED <<fs, release, openHandles, fText, fLive, raised, checked,
                   opens, reads, readText, envSteps>>

---------------------------------------------------------------------------
(* Other processes acting on the version path *)

EnvRemove ==
    /\ envSteps < MaxEnvSteps
    /\ fs.kind # "absent"
    /\ fs' = Absent
    /\ fLive' = FALSE
    /\ envSteps' = envSteps + 1
    /\ UNCHANGED <<pc, release, version, bound, openHandles, fText, raised,
                   checked, opens, reads, readText>>

EnvMkdir ==
    /\ envSteps < MaxEnvSteps
    /\ fs.kind = "absent"
    /\ fs' = Dir
    /\ envSteps' = envSteps + 1
    /\ UNCHANGED <<pc, release, version, bound, openHandles, fText, fLive,
                   raised, checked, opens, reads, readText>>

\* Create the file, or overwrite it in place (an open f then sees the new text).
EnvWrite(t) ==
    /\ envSteps < MaxEnvSteps
    /\ fs.kind \in {"absent", "file"}
    /\ fs' = File(t, IF fs.kind = "file" THEN fs.readable ELSE TRUE)
    /\ fText' = IF fLive /\ fs.kind = "file" THEN t ELSE fText
    /\ envSteps' = envSteps + 1
    /\ UNCHANGED <<pc, release, version, bound, openHandles, fLive, raised,
                   checked, opens, reads, readText>>

EnvChmod ==
    /\ envSteps < MaxEnvSteps
    /\ fs.kind = "file"
    /\ fs' = [fs EXCEPT !.readable = ~fs.readable]
    /\ envSteps' = envSteps + 1
    /\ UNCHANGED <<pc, release, version, bound, openHandles, fText, fLive,
                   raised, checked, opens, reads, readText>>

Next ==
    \/ CheckExists
    \/ Open
    \/ Read
    \/ WithExit
    \/ Else
    \/ ComputeVersion
    \/ EnvRemove
    \/ EnvMkdir
    \/ \E t \in EnvTexts : EnvWrite(t)
    \/ EnvChmod

Spec == Init /\ [][Next]_vars

TypeOK ==
    /\ fs.kind \in {"absent", "file", "dir"}
    /\ pc \in {"check", "open", "read", "exit", "else", "version", "done",
               "error"}
    /\ bound \subseteq {"release", "version"}
    /\ openHandles \in 0..1
    /\ checked \in {"none", "absent", "file", "dir"}

---------------------------------------------------------------------------
(* Vocabulary of the properties, independent of the operators above *)

Done == pc = "done"
Terminal == pc \in {"done", "error"}

\* The load read the file: f.read() returned readText.
ReadFile == Done /\ reads = 1

DotsOf(s) == {i \in 1..Len(s) : s[i] = "."}
NumSegments(s) == Cardinality(DotsOf(s)) + 1

IsPrefix(a, b) == Len(a) <= Len(b) /\ a = SubSeq(b, 1, Len(a))

\* s up to, not including, its second dot; all of s when it has fewer than two.
UpToSecondDot(s) ==
    IF Cardinality(DotsOf(s)) < 2 THEN s
    ELSE LET first == CHOOSE i \in DotsOf(s) : \A j \in DotsOf(s) : i <= j
             second == CHOOSE i \in DotsOf(s) \ {first} :
                           \A j \in DotsOf(s) \ {first} : i <= j
         IN  SubSeq(s, 1, second - 1)

IsSpace(c) == c \in {" ", "\n"}

\* s without its leading and trailing whitespace, interior untouched.
Trimmed(s) ==
    LET inked == {i \in 1..Len(s) : ~IsSpace(s[i])}
    IN  IF inked = {} THEN <<>>
        ELSE LET lo == CHOOSE i \in inked : \A j \in inked : i <= j
                 hi == CHOOSE i \in inked : \A j \in inked : j <= i
             IN  SubSeq(s, lo, hi)

Padding == {<<>>, <<" ">>, <<"\n">>, <<"\n", " ">>}

---------------------------------------------------------------------------
(* Properties *)

\* C1 as stated: with no version file at the load, release = "0.0.0" and
\* version = "0.0.0".
C1_AsStated ==
    (Done /\ checked = "absent") =>
        /\ release = <<"0", ".", "0", ".", "0">>
        /\ version = <<"0", ".", "0", ".", "0">>

\* C1 amended: with no version file at the load, release = "0.0.0" and
\* version = "0.0" (its first two segments), nothing is opened and no error
\* is signalled.
C1_AbsentDefault ==
    /\ checked = "absent" => (pc # "error" /\ ~raised /\ opens = 0)
    /\ (Done /\ checked = "absent") =>
           /\ release = <<"0", ".", "0", ".", "0">>
           /\ version = <<"0", ".", "0">>

C1_Witness == Done /\ checked = "absent" /\ envSteps = 0

\* C2 as stated: a file whose contents r have at least two segments yields
\* version = the first two segments of r joined by ".".
C2_AsStated ==
    (ReadFile /\ NumSegments(readText) >= 2) =>
        version = UpToSecondDot(readText)

\* C2 amended: a file whose contents r have at least two segments yields
\* version = the first two segments, joined by ".", of r without its leading
\* and trailing whitespace.
C2_FirstTwoOfTrimmed ==
    (ReadFile /\ NumSegments(readText) >= 2) =>
        version = UpToSecondDot(Trimmed(readText))

C2_Witness ==
    /\ ReadFile
    /\ NumSegments(readText) >= 3
    /\ version # readText
    /\ version # <<>>

\* C3: version is a prefix of release made of at most its first two
\* segments, and equals release when release has no dot.
C3_VersionPrefix ==
    "version" \in bound =>
        /\ IsPrefix(version, release)
        /\ NumSegments(version) <= 2
        /\ version = UpToSecondDot(release)
        /\ (NumSegments(release) < 2 => version = release)

C3_Witness ==
    /\ Done
    /\ NumSegments(release) >= 3
    /\ NumSegments(version) = 2
    /\ version # release

\* C4: when the file is read, release is its contents without leading and
\* trailing whitespace, interior untouched; contents differing only in the
\* surrounding whitespace give the same release and version.
C4_ReleaseIsTrimmed ==
    ReadFile =>
        /\ release = Trimmed(readText)
        /\ \A a \in Padding, b \in Padding :
               LET other == a \o Trimmed(readText) \o b
               IN  /\ ReleaseFromText(other) = release
                   /\ VersionOf(ReleaseFromText(other)) = version

C4_Witness ==
    /\ ReadFile
    /\ Len(readText) >= 3
    /\ IsSpace(readText[1])
    /\ IsSpace(readText[Len(readText)])
    /\ release # <<>>

\* C5: an empty file gives release = "" and version = ""; the default is
\* used only for an absent path, and no contents that were read are rejected.
C5_EmptyFile ==
    /\ (ReadFile /\ Trimmed(readText) = <<>>) =>
           (release = <<>> /\ version = <<>>)
    /\ (Done /\ checked # "absent" /\ release = <<"0", ".", "0", ".", "0">>) =>
           Trimmed(readText) = <<"0", ".", "0", ".", "0">>
    /\ (reads = 1 /\ "release" \in bound) => (pc # "error" /\ ~raised)

C5_Witness == ReadFile /\ readText = <<>> /\ checked = "file"

\* C6 as stated: the path is opened only if a regular file is there; with
\* nothing or a directory there, release is the default and nothing is opened.
C6_AsStated ==
    /\ opens > 0 => checked = "file"
    /\ checked \in {"absent", "dir"} =>
           /\ pc \in {"else", "version", "done"}
           /\ "release" \in bound => release = <<"0", ".", "0", ".", "0">>

\* C7: at most one file handle is ever open, and none is open in a terminal
\* state, normal or error, also when reading failed.
C7_HandleReleased ==
    /\ openHandles <= 1
    /\ openHandles = 1 => pc \in {"read", "exit"}
    /\ Terminal => openHandles = 0

C7_Witness == pc = "error" /\ reads = 1 /\ openHandles = 0

\* C8 as stated (the read count): a load that found a regular file performs
\* exactly one read.
C8_AsStated ==
    (Terminal /\ checked = "file" /\ envSteps = 0) => reads = 1

\* C8 amended: no step of the load changes the version path; there is at most
\* one open and one read; none when the path is absent or the open fails,
\* exactly one when the path exists and the open succeeds.
C8_FrameAndReads ==
    /\ [][pc' # pc => fs' = fs]_vars
    /\ [](/\ reads <= 1
          /\ opens <= 1
          /\ reads <= opens
          /\ checked = "absent" => opens = 0
          /\ (Done /\ checked # "absent") => reads = 1
          /\ (Terminal /\ reads = 0 /\ checked # "absent") =>
                 (pc = "error" /\ opens = 1))

C8_Witness ==
    /\ ReadFile
    /\ envSteps = 0
    /\ fs = File(readText, TRUE)
    /\ readText # <<>>

\* C9: once bound, release and version never change, and once the load is
\* complete the file is never opened or read again, whatever happens to it.
C9_ComputedOnce ==
    [][/\ "release" \in bound =>
              (release' = release /\ "release" \in bound')
       /\ "version" \in bound =>
              /\ version' = version
              /\ "version" \in bound'
              /\ opens' = opens
              /\ reads' = reads]_vars

C9_Witness ==
    /\ ReadFile
    /\ envSteps > 0
    /\ fs.kind = "file"
    /\ Trimmed(fs.text) # release

\* C10: when the path passed the existence check and the open or the read
\* then fails, the load ends in the error; the default is not substituted
\* and neither release nor version is bound.
C10_FailurePropagates ==
    LET openFailed == opens = 1 /\ reads = 0 /\ pc # "read"
        readFailed == reads = 1 /\ "release" \notin bound
    IN  /\ (openFailed \/ readFailed) =>
               (raised /\ pc \in {"exit", "error"} /\ bound = {})
        /\ (raised \/ pc = "error") => bound = {}
        /\ pc = "error" => raised

C10_Witness ==
    /\ pc = "error"
    /\ checked = "file"
    /\ fs.kind = "absent"
    /\ opens = 1
    /\ reads = 0

====
